---- MODULE Spec2Model ----
(***************************************************************************)
(* User-management API (FastAPI + SQLAlchemy): the users table, the CRUD   *)
(* layer of app/crud.py and the HTTP handlers of app/main.py.              *)
(*                                                                         *)
(* Every handler is split at its SQL statements: one action per statement  *)
(* (with the Python code that follows it up to the next statement), so     *)
(* that requests served by different worker processes can interleave       *)
(* between a handler's existence check and its mutation.                   *)
(*   Spec     - requests are served one at a time (no interleaving)        *)
(*   ConcSpec - requests of different workers interleave at statements     *)
(*   PageSpec - GET /users/ alone, from any table of up to MaxRows users   *)
(*   RaceSpec - two workers serve one POST /users/ each, interleaved       *)
(*   CloseSpec - serial requests with the session close under fairness     *)
(***************************************************************************)
EXTENDS Integers, Sequences, FiniteSets, TLC

\* ------------------------------------------------------------------ bounds
MaxId == 2
MaxClock == 2
MaxSkip == 2
MaxLimit == 2
\* rows of the tables that the pagination runs start from
MaxRows == 5

\* ------------------------------------------------------------ value domains
Workers == {"w1", "w2"}
Emails == {"a@x.com", "b@x.com"}
\* email strings as request bodies carry them, before validation
RawEmails == Emails \cup {"a@X.com"}
Passwords == {"p1", "p2"}

\* Python None / SQL NULL
None == "None"
\* a UserUpdate field that the request body does not name
Unset == "Unset"
\* a NULL timestamp column (real timestamps start at 1)
NoTime == 0
Bools == {"True", "False"}

VARIABLES
    store,      \* the users table: rows in rowid (= id) order
    clock,      \* the database server's now()
    pc,         \* per worker: the statement its current request is at
    req,        \* per worker: the request being served
    loaded,     \* per worker: rows held by the request's session
    resp,       \* per worker: the response, once pc = "done"
    pre         \* per worker: the table as it was when the request arrived

vars == <<store, clock, pc, req, loaded, resp, pre>>

\* ------------------------------------------------------------------ helpers
Min(a, b) == IF a < b THEN a ELSE b

First(s) == IF s = <<>> THEN <<>> ELSE <<s[1]>>

Ids(db) == {db[i].id : i \in 1..Len(db)}

RowsWithEmail(db, email) == {i \in 1..Len(db) : db[i].email = email}

\* ------------------------------------------------------------ app/crud.py
\* sha256(...).hexdigest(): a digest differs from its input, distinct inputs
\* of the domain have distinct digests
hash_password_plain(password) == password

hash_password(password) ==
    CASE password = "p1" -> "sha256(p1)"
      [] password = "p2" -> "sha256(p2)"
      [] OTHER -> "sha256(?)"

verify_password(plain_password, hashed_password) ==
    hash_password(plain_password) = hashed_password

get_user_by_id_any(db, user_id) == First(db)

get_user_by_id(db, user_id) ==
    First(SelectSeq(db, LAMBDA r : r.id = user_id))

get_user_by_email_miss(db, email) == <<>>

get_user_by_email(db, email) ==
    First(SelectSeq(db, LAMBDA r : r.email = email))

get_users_from_second(db, skip, limit) ==
    SubSeq(db, skip + 2, Min(Len(db), skip + 1 + limit))

get_users_desc(db, skip, limit) ==
    LET page == SubSeq(db, skip + 1, Min(Len(db), skip + limit))
    IN  [i \in 1..Len(page) |-> page[Len(page) + 1 - i]]

get_users(db, skip, limit) ==
    SubSeq(db, skip + 1, Min(Len(db), skip + limit))

get_users_count_active(db) == Len(SelectSeq(db, LAMBDA r : r.is_active = "True"))

get_users_count(db) == Len(db)

authenticate_user_active(db, email, password) ==
    LET user == get_user_by_email(db, email)
    IN  IF user = <<>> THEN <<>>
        ELSE IF ~verify_password(password, user[1].hashed_password) THEN <<>>
        ELSE IF user[1].is_active # "True" THEN <<>>
        ELSE user

authenticate_user(db, email, password) ==
    LET user == get_user_by_email(db, email)
    IN  IF user = <<>> THEN <<>>
        ELSE IF ~verify_password(password, user[1].hashed_password) THEN <<>>
        ELSE user

\* ------------------------------------------------------- the users table
\* rowid of the next inserted row (SQLite INTEGER PRIMARY KEY)
NextId_count(db) == Len(db) + 1

NextId(db) == IF db = <<>> THEN 1 ELSE db[Len(db)].id + 1

\* the row a User(email, hashed_password) becomes on INSERT
NewRow(db, email, hashed_password, now) ==
    [id |-> NextId(db), email |-> email, hashed_password |-> hashed_password,
     is_active |-> "True", created_at |-> now, updated_at |-> NoTime]

\* the unique index on users.email: would row `user_id` holding `email`
\* collide with another row?
UniqueViolation_off(db, user_id, email) == FALSE

UniqueViolation_own(db, user_id, email) ==
    \E i \in 1..Len(db) : db[i].email = email /\ db[i].id = user_id

UniqueViolation(db, user_id, email) ==
    \E i \in 1..Len(db) : db[i].email = email /\ db[i].id # user_id

\* schemas.User: what a response shows of a row
UserView(r) ==
    [id |-> r.id, email |-> r.email, is_active |-> r.is_active,
     created_at |-> r.created_at, updated_at |-> r.updated_at]

\* response_model validation: is_active must be a bool
Serializable(r) == r.is_active \in Bools

\* ---------------------------------------------------------------- responses
NoResp == [status |-> 0, detail |-> "", users |-> <<>>, total |-> 0,
           user_id |-> 0, email |-> None]

HTTPException(status_code, detail) ==
    [NoResp EXCEPT !.status = status_code, !.detail = detail]

\* an exception no handler catches
ServerError(what) == HTTPException(500, what)

\* a handler returns the row `r` under response_model=schemas.User
UserResponse(status_code, r) ==
    IF Serializable(r)
    THEN [NoResp EXCEPT !.status = status_code, !.users = <<UserView(r)>>]
    ELSE ServerError("ResponseValidationError")

\* ----------------------------------------------------------------- requests
\* `given` is the email string of a POST body, `email` the validated field
NoReq == [op |-> "none", user_id |-> 0, email |-> None, password |-> None,
          is_active |-> None, skip |-> 0, limit |-> 0, given |-> None]

\* EmailStr validation: the value the handler sees has its domain part in
\* lower case
validate_email(given) ==
    CASE given = "a@X.com" -> "a@x.com"
      [] OTHER -> given

Init ==
    /\ store = <<>>
    /\ clock = 1
    /\ pc = [w \in Workers |-> "idle"]
    /\ req = [w \in Workers |-> NoReq]
    /\ loaded = [w \in Workers |-> <<>>]
    /\ resp = [w \in Workers |-> NoResp]
    /\ pre = [w \in Workers |-> <<>>]


\* ------------------------------------------------- request bookkeeping
\* a worker takes a request when it serves none; under `serial` only when no
\* other worker is serving one either
CanStart(w, serial) ==
    /\ pc[w] = "idle"
    /\ serial => \A v \in Workers : pc[v] = "idle"

\* the request arrives: get_db opens its session (the table on arrival is
\* recorded for serial runs, where "before the request" is one state)
Arrive(w, rq, serial) ==
    /\ req' = [req EXCEPT ![w] = rq]
    /\ pre' = IF serial THEN [pre EXCEPT ![w] = store] ELSE pre

\* the handler returns or raises: the response is fixed
Answer(w, r) ==
    /\ pc' = [pc EXCEPT ![w] = "done"]
    /\ resp' = [resp EXCEPT ![w] = r]

Goto(w, label) ==
    /\ pc' = [pc EXCEPT ![w] = label]
    /\ resp' = resp

\* ----------------------------------------------------- POST /users/
\* serial runs draw every body, interleaved runs one password and emails
\* that validation leaves as they are
CreateRequests(serial) ==
    {[NoReq EXCEPT !.op = "create", !.given = g, !.email = validate_email(g),
                   !.password = p] :
        g \in IF serial THEN RawEmails ELSE Emails,
        p \in IF serial THEN Passwords ELSE {"p1"}}

\* main.create_user up to the pre-check: SELECT by email
CreateCheck(w, serial) ==
    /\ CanStart(w, serial)
    /\ \E rq \in CreateRequests(serial) :
        LET db_user == get_user_by_email(store, rq.email)
        IN  /\ Arrive(w, rq, serial)
            /\ IF db_user # <<>>
               THEN Answer(w, HTTPException(400, "Email already registered"))
               ELSE NextId(store) <= MaxId /\ Goto(w, "create_insert")
    /\ UNCHANGED <<store, clock, loaded>>

\* crud.create_user: db.add, db.commit (INSERT)
CreateInsert(w) ==
    /\ pc[w] = "create_insert"
    /\ LET row == NewRow(store, req[w].email,
                         hash_password(req[w].password), clock)
       IN  IF UniqueViolation(store, row.id, row.email)
           THEN /\ Answer(w, ServerError("IntegrityError"))
                /\ UNCHANGED <<store, loaded>>
           ELSE /\ store' = Append(store, row)
                /\ loaded' = [loaded EXCEPT ![w] = <<row>>]
                /\ Goto(w, "create_refresh")
    /\ UNCHANGED <<clock, req, pre>>

\* crud.create_user: db.refresh (SELECT by primary key), then the response
CreateRefresh(w) ==
    /\ pc[w] = "create_refresh"
    /\ LET db_user == get_user_by_id(store, loaded[w][1].id)
       IN  IF db_user = <<>>
           THEN Answer(w, ServerError("InvalidRequestError"))
           ELSE Answer(w, UserResponse(201, db_user[1]))
    /\ UNCHANGED <<store, clock, req, loaded, pre>>

\* ------------------------------------------------- PUT /users/{user_id}
UserIds == 1..MaxId

AllUpdateRequests ==
    {[NoReq EXCEPT !.op = "update", !.user_id = i, !.email = e,
                   !.password = p, !.is_active = a] :
        i \in UserIds, e \in Emails \cup {Unset, None},
        p \in Passwords \cup {Unset, None}, a \in Bools \cup {Unset, None}}

\* serial runs draw every body; interleaved runs draw the empty body and the
\* bodies that name the email alone
UpdateRequests(serial) ==
    IF serial THEN AllUpdateRequests
    ELSE {rq \in AllUpdateRequests :
            /\ rq.email \in Emails \cup {Unset}
            /\ rq.password = Unset
            /\ rq.is_active = Unset}

\* the attribute values the setattr loop of crud.update_user leaves on db_user
NewEmail_keep(u, rq) == u.email

NewEmail(u, rq) == IF rq.email = Unset THEN u.email ELSE rq.email

NewHash_plain(u, rq) ==
    IF rq.password = Unset THEN u.hashed_password ELSE rq.password

NewHash(u, rq) ==
    IF rq.password = Unset THEN u.hashed_password
    ELSE hash_password(rq.password)

NewActive_dump(u, rq) == IF rq.is_active = Unset THEN None ELSE rq.is_active

NewActive(u, rq) == IF rq.is_active = Unset THEN u.is_active ELSE rq.is_active

\* the session flushes an UPDATE only when an attribute differs from the
\* value it was loaded with
Dirty(u, rq) ==
    \/ NewEmail(u, rq) # u.email
    \/ NewHash(u, rq) # u.hashed_password
    \/ NewActive(u, rq) # u.is_active

UpdatedRow_created(r, u, rq, now) ==
    [r EXCEPT !.email = NewEmail(u, rq), !.hashed_password = NewHash(u, rq),
              !.is_active = NewActive(u, rq), !.created_at = now,
              !.updated_at = now]

\* UPDATE users SET <changed columns>, updated_at = now() WHERE id = u.id
UpdatedRow(r, u, rq, now) ==
    [r EXCEPT
        !.email = IF NewEmail(u, rq) # u.email THEN NewEmail(u, rq) ELSE @,
        !.hashed_password =
            IF NewHash(u, rq) # u.hashed_password THEN NewHash(u, rq) ELSE @,
        !.is_active =
            IF NewActive(u, rq) # u.is_active THEN NewActive(u, rq) ELSE @,
        !.updated_at = now]

\* main.update_user: the email belongs to a user other than the one updated
EmailTakenByOther_any(existing_user, user_id) == existing_user # <<>>

EmailTakenByOther(existing_user, user_id) ==
    existing_user # <<>> /\ existing_user[1].id # user_id

\* main.update_user, the pre-check taken when user_update.email is truthy
UpdateCheck(w, serial) ==
    /\ CanStart(w, serial)
    /\ \E rq \in UpdateRequests(serial) :
        /\ rq.email \in Emails
        /\ Arrive(w, rq, serial)
        /\ LET existing_user == get_user_by_email(store, rq.email)
           IN  IF EmailTakenByOther(existing_user, rq.user_id)
               THEN /\ Answer(w, HTTPException(400,
                                "Email already registered by another user"))
                    /\ loaded' = loaded
               ELSE /\ Goto(w, "update_get")
                    /\ loaded' = [loaded EXCEPT ![w] = existing_user]
    /\ UNCHANGED <<store, clock>>

\* crud.update_user up to db.commit: SELECT by id, model_dump, setattr
UpdateGetStep(w, rq) ==
    LET found == get_user_by_id(store, rq.user_id)
        \* a row the session already holds keeps the attributes it was
        \* loaded with
        db_user == IF found # <<>> /\ loaded[w] # <<>> THEN loaded[w]
                   ELSE found
    IN  IF db_user = <<>>
        THEN /\ Answer(w, HTTPException(404, "User not found"))
             /\ loaded' = loaded
        ELSE IF rq.password = None
        THEN /\ Answer(w, ServerError("AttributeError"))
             /\ loaded' = [loaded EXCEPT ![w] = db_user]
        ELSE /\ loaded' = [loaded EXCEPT ![w] = db_user]
             /\ IF Dirty(db_user[1], rq)
                THEN Goto(w, "update_commit")
                ELSE Goto(w, "update_refresh")

\* main.update_user when the body names no (truthy) email
UpdateStart(w, serial) ==
    /\ CanStart(w, serial)
    /\ \E rq \in UpdateRequests(serial) :
        /\ rq.email \notin Emails
        /\ Arrive(w, rq, serial)
        /\ UpdateGetStep(w, rq)
    /\ UNCHANGED <<store, clock>>

UpdateGet(w) ==
    /\ pc[w] = "update_get"
    /\ UpdateGetStep(w, req[w])
    /\ UNCHANGED <<store, clock, req, pre>>

\* crud.update_user: db.commit (UPDATE ... WHERE id = ?)
UpdateCommit(w) ==
    /\ pc[w] = "update_commit"
    /\ LET u == loaded[w][1]
           rq == req[w]
           at == {i \in 1..Len(store) : store[i].id = u.id}
       IN  IF at = {}
           THEN /\ Answer(w, ServerError("StaleDataError"))
                /\ store' = store
           ELSE IF NewEmail(u, rq) # u.email
                   /\ (NewEmail(u, rq) = None
                       \/ UniqueViolation(store, u.id, NewEmail(u, rq)))
           THEN /\ Answer(w, ServerError("IntegrityError"))
                /\ store' = store
           ELSE /\ store' = [i \in 1..Len(store) |->
                                IF i \in at
                                THEN UpdatedRow(store[i], u, rq, clock)
                                ELSE store[i]]
                /\ Goto(w, "update_refresh")
    /\ UNCHANGED <<clock, req, loaded, pre>>

UpdateRefresh_notfound(w) ==
    /\ pc[w] = "update_refresh"
    /\ Answer(w, HTTPException(404, "User not found"))
    /\ UNCHANGED <<store, clock, req, loaded, pre>>

\* crud.update_user: db.refresh, then the response of main.update_user
UpdateRefresh(w) ==
    /\ pc[w] = "update_refresh"
    /\ LET db_user == get_user_by_id(store, loaded[w][1].id)
       IN  IF db_user = <<>>
           THEN Answer(w, ServerError("InvalidRequestError"))
           ELSE Answer(w, UserResponse(200, db_user[1]))
    /\ UNCHANGED <<store, clock, req, loaded, pre>>


\* ---------------------------------------------- DELETE /users/{user_id}
DeleteRequests ==
    {[NoReq EXCEPT !.op = "delete", !.user_id = i] : i \in UserIds}

DeletedFrom_first(db, user_id) == Tail(db)

DeletedFrom_soft(db, user_id) ==
    [i \in 1..Len(db) |->
        IF db[i].id = user_id THEN [db[i] EXCEPT !.is_active = "False"]
        ELSE db[i]]

\* DELETE FROM users WHERE id = user_id
DeletedFrom(db, user_id) == SelectSeq(db, LAMBDA r : r.id # user_id)

\* crud.delete_user up to db.delete: SELECT by id
DeleteGet(w, serial) ==
    /\ CanStart(w, serial)
    /\ \E rq \in DeleteRequests :
        LET db_user == get_user_by_id(store, rq.user_id)
        IN  /\ Arrive(w, rq, serial)
            /\ loaded' = [loaded EXCEPT ![w] = db_user]
            /\ IF db_user = <<>>
               THEN Answer(w, HTTPException(404, "User not found"))
               ELSE Goto(w, "delete_commit")
    /\ UNCHANGED <<store, clock>>

\* crud.delete_user: db.delete, db.commit (DELETE ... WHERE id = ?); a row
\* that is already gone only draws a warning
DeleteCommit(w) ==
    /\ pc[w] = "delete_commit"
    /\ store' = DeletedFrom(store, loaded[w][1].id)
    /\ Answer(w, [NoResp EXCEPT !.status = 200,
                                !.detail = "User deleted successfully"])
    /\ UNCHANGED <<clock, req, loaded, pre>>

\* ----------------------------------------------------- POST /auth/login
LoginRequests ==
    {[NoReq EXCEPT !.op = "login", !.email = e, !.password = p] :
        e \in Emails, p \in Passwords}

LoginResponse_active_first(db, rq) ==
    LET known == get_user_by_email(db, rq.email)
        user == authenticate_user(db, rq.email, rq.password)
    IN  IF known # <<>> /\ known[1].is_active # "True"
        THEN HTTPException(400, "Inactive user")
        ELSE IF user = <<>>
        THEN HTTPException(401, "Incorrect email or password")
        ELSE [NoResp EXCEPT !.status = 200, !.detail = "Login successful",
                            !.user_id = user[1].id, !.email = user[1].email]

LoginResponse_reveal(db, rq) ==
    LET known == get_user_by_email(db, rq.email)
        user == authenticate_user(db, rq.email, rq.password)
    IN  IF known = <<>>
        THEN HTTPException(404, "User not found")
        ELSE IF user = <<>>
        THEN HTTPException(401, "Incorrect email or password")
        ELSE IF user[1].is_active # "True"
        THEN HTTPException(400, "Inactive user")
        ELSE [NoResp EXCEPT !.status = 200, !.detail = "Login successful",
                            !.user_id = user[1].id, !.email = user[1].email]

LoginResponse(db, rq) ==
    LET user == authenticate_user(db, rq.email, rq.password)
    IN  IF user = <<>>
        THEN HTTPException(401, "Incorrect email or password")
        ELSE IF user[1].is_active # "True"
        THEN HTTPException(400, "Inactive user")
        ELSE [NoResp EXCEPT !.status = 200, !.detail = "Login successful",
                            !.user_id = user[1].id, !.email = user[1].email]

Login_touch(w, serial) ==
    /\ CanStart(w, serial)
    /\ \E rq \in LoginRequests :
        /\ Arrive(w, rq, serial)
        /\ Answer(w, LoginResponse(store, rq))
        /\ store' = [i \in 1..Len(store) |->
                        IF <<store[i]>>
                              = authenticate_user(store, rq.email, rq.password)
                        THEN [store[i] EXCEPT !.updated_at = clock]
                        ELSE store[i]]
    /\ UNCHANGED <<clock, loaded>>

Login(w, serial) ==
    /\ CanStart(w, serial)
    /\ \E rq \in LoginRequests :
        /\ Arrive(w, rq, serial)
        /\ Answer(w, LoginResponse(store, rq))
    /\ UNCHANGED <<store, clock, loaded>>

\* ------------------------- GET /users/{user_id}, GET /users/email/{email}
GetRequests ==
    {[NoReq EXCEPT !.op = "get", !.user_id = i] : i \in UserIds}

\* the path parameter is a plain str: no validation touches it
GetByEmailRequests(serial) ==
    {[NoReq EXCEPT !.op = "get_by_email", !.email = e] :
        e \in IF serial THEN RawEmails ELSE Emails}

LookupResponse(db_user) ==
    IF db_user = <<>> THEN HTTPException(404, "User not found")
    ELSE UserResponse(200, db_user[1])

GetUser(w, serial) ==
    /\ CanStart(w, serial)
    /\ \E rq \in GetRequests :
        /\ Arrive(w, rq, serial)
        /\ Answer(w, LookupResponse(get_user_by_id(store, rq.user_id)))
    /\ UNCHANGED <<store, clock, loaded>>

GetUserByEmail(w, serial) ==
    /\ CanStart(w, serial)
    /\ \E rq \in GetByEmailRequests(serial) :
        /\ Arrive(w, rq, serial)
        /\ Answer(w, LookupResponse(get_user_by_email(store, rq.email)))
    /\ UNCHANGED <<store, clock, loaded>>

\* ----------------------------------------------------------- GET /users/
ListRequests ==
    {[NoReq EXCEPT !.op = "list", !.skip = s, !.limit = l] :
        s \in 0..MaxSkip, l \in 1..MaxLimit}

\* main.get_users: crud.get_users (SELECT ... OFFSET skip LIMIT limit)
ListPage(w, serial) ==
    /\ CanStart(w, serial)
    /\ \E rq \in ListRequests :
        /\ Arrive(w, rq, serial)
        /\ loaded' = [loaded EXCEPT ![w] = get_users(store, rq.skip, rq.limit)]
        /\ Goto(w, "list_count")
    /\ UNCHANGED <<store, clock>>

\* main.get_users returns schemas.UsersListResponse(message, users, total):
\* building it validates every user against schemas.User
ListResponse(users, total) ==
    IF \A i \in 1..Len(users) : Serializable(users[i])
    THEN [NoResp EXCEPT
             !.status = 200,
             !.users = [i \in 1..Len(users) |-> UserView(users[i])],
             !.total = total]
    ELSE ServerError("ResponseValidationError")

\* main.get_users: crud.get_users_count (SELECT count(*)), then the response
ListCount(w) ==
    /\ pc[w] = "list_count"
    /\ Answer(w, ListResponse(loaded[w], get_users_count(store)))
    /\ UNCHANGED <<store, clock, req, loaded, pre>>

\* ------------------------------------- a request served alone, as a whole
\* POST /users/ on the table `db` at time `now`: its response
PostResponse(db, rq, now) ==
    IF get_user_by_email(db, rq.email) # <<>>
    THEN HTTPException(400, "Email already registered")
    ELSE LET row == NewRow(db, rq.email, hash_password(rq.password), now)
         IN  IF UniqueViolation(db, row.id, row.email)
             THEN ServerError("IntegrityError")
             ELSE UserResponse(201, row)

\* PUT /users/{user_id} on the table `db`, committing at time `now`: its
\* response
PutResponse(db, rq, now) ==
    IF /\ rq.email \in Emails
       /\ EmailTakenByOther(get_user_by_email(db, rq.email), rq.user_id)
    THEN HTTPException(400, "Email already registered by another user")
    ELSE LET db_user == get_user_by_id(db, rq.user_id)
         IN  IF db_user = <<>> THEN HTTPException(404, "User not found")
             ELSE IF rq.password = None THEN ServerError("AttributeError")
             ELSE LET u == db_user[1]
                  IN  IF ~Dirty(u, rq) THEN UserResponse(200, u)
                      ELSE IF /\ NewEmail(u, rq) # u.email
                              /\ \/ NewEmail(u, rq) = None
                                 \/ UniqueViolation(db, u.id, NewEmail(u, rq))
                      THEN ServerError("IntegrityError")
                      ELSE UserResponse(200, UpdatedRow(u, u, rq, now))

\* GET /users/ on the table `db`: its response
GetUsersResponse(db, rq) ==
    ListResponse(get_users(db, rq.skip, rq.limit), get_users_count(db))

\* ------------------------------------------------------------ environment
Close_on_return(w) ==
    /\ pc[w] = "done"
    /\ resp[w].status < 400
    /\ pc' = [pc EXCEPT ![w] = "idle"]
    /\ req' = [req EXCEPT ![w] = NoReq]
    /\ loaded' = [loaded EXCEPT ![w] = <<>>]
    /\ resp' = [resp EXCEPT ![w] = NoResp]
    /\ pre' = [pre EXCEPT ![w] = <<>>]
    /\ UNCHANGED <<store, clock>>

\* get_db's finally: db.close(); the worker is free for the next request
Close(w) ==
    /\ pc[w] = "done"
    /\ pc' = [pc EXCEPT ![w] = "idle"]
    /\ req' = [req EXCEPT ![w] = NoReq]
    /\ loaded' = [loaded EXCEPT ![w] = <<>>]
    /\ resp' = [resp EXCEPT ![w] = NoResp]
    /\ pre' = [pre EXCEPT ![w] = <<>>]
    /\ UNCHANGED <<store, clock>>

\* time passes on the database server
Tick ==
    /\ clock < MaxClock
    /\ clock' = clock + 1
    /\ UNCHANGED <<store, pc, req, loaded, resp, pre>>

Step(w, serial) ==
    \/ CreateCheck(w, serial)
    \/ CreateInsert(w)
    \/ CreateRefresh(w)
    \/ UpdateCheck(w, serial)
    \/ UpdateStart(w, serial)
    \/ UpdateGet(w)
    \/ UpdateCommit(w)
    \/ UpdateRefresh(w)
    \/ DeleteGet(w, serial)
    \/ DeleteCommit(w)
    \/ Login(w, serial)
    \/ GetUser(w, serial)
    \/ GetUserByEmail(w, serial)
    \/ ListPage(w, serial)
    \/ ListCount(w)
    \/ Close(w)

\* one request at a time: which worker serves it makes no difference, so
\* one worker serves them all
Next == Tick \/ Step("w1", TRUE)

Spec == Init /\ [][Next]_vars

\* requests of different workers interleave between their statements
ConcNext == \E w \in Workers : Step(w, FALSE)

ConcSpec == Init /\ [][ConcNext]_vars

\* get_db is a dependency with yield: once the handler has returned or
\* raised, the framework resumes it and its finally block runs
\* (requests one at a time, within one tick of the database clock)
CloseNext == Step("w1", TRUE)

CloseSpec == Init /\ [][CloseNext]_vars /\ WF_vars(Close("w1"))

\* ------------------------------------------------------- pagination runs
\* a persisted user as POST /users/ leaves it
PageRow(i) ==
    [id |-> i, email |-> "u" \o ToString(i) \o "@x.com",
     hashed_password |-> hash_password("p1"),
     is_active |-> "True", created_at |-> 1, updated_at |-> NoTime]

\* the table holding the users of ids S, in rowid order
RECURSIVE TableOf(_)
TableOf(S) ==
    IF S = {} THEN <<>>
    ELSE LET m == CHOOSE x \in S : \A y \in S : y <= x
         IN  Append(TableOf(S \ {m}), PageRow(m))

\* any table that creates and deletes of up to MaxRows users leave
PageInit ==
    /\ store \in {TableOf(S) : S \in SUBSET (1..MaxRows)}
    /\ clock = 1
    /\ pc = [w \in Workers |-> "idle"]
    /\ req = [w \in Workers |-> NoReq]
    /\ loaded = [w \in Workers |-> <<>>]
    /\ resp = [w \in Workers |-> NoResp]
    /\ pre = [w \in Workers |-> <<>>]

\* GET /users/ only: no mutation between two lists
PageNext ==
    \E w \in Workers :
        \/ ListPage(w, TRUE)
        \/ ListCount(w)
        \/ Close(w)

PageSpec == PageInit /\ [][PageNext]_vars

\* ------------------------------------------------------------ create races
\* users of other emails are persisted; no request is being served
RaceInit ==
    /\ store \in {TableOf(S) : S \in SUBSET (1..(MaxId - 1))}
    /\ clock = 1
    /\ pc = [w \in Workers |-> "idle"]
    /\ req = [w \in Workers |-> NoReq]
    /\ loaded = [w \in Workers |-> <<>>]
    /\ resp = [w \in Workers |-> NoResp]
    /\ pre = [w \in Workers |-> <<>>]

\* each worker serves one POST /users/, interleaved at statements with the
\* other worker's
RaceNext ==
    \/ Tick
    \/ \E w \in Workers :
          \/ CreateCheck(w, FALSE)
          \/ CreateInsert(w)
          \/ CreateRefresh(w)

RaceSpec == RaceInit /\ [][RaceNext]_vars


\* ================================================================ claims
Done(w, op) == pc[w] = "done" /\ req[w].op = op

\* C1: under any interleaving of POST, PUT and DELETE requests served by
\* parallel workers, no two persisted users have the same email.
C1_EmailUnique ==
    \A i, j \in 1..Len(store) : store[i].email = store[j].email => i = j

\* two requests raced for one email and the table turned the second away
C1_Witness ==
    \E w \in Workers :
        /\ pc[w] = "done"
        /\ resp[w].detail = "IntegrityError"
        /\ RowsWithEmail(store, req[w].email) # {}

\* C2: served without interleaving, POST /users/ with an email some user
\* holds answers 400 "Email already registered" and adds no record, so one
\* record with that email persists; with an email nobody holds it answers 201
\* and adds exactly one record.
C2_CreateDuplicate ==
    \A w \in Workers : Done(w, "create") =>
        IF RowsWithEmail(pre[w], req[w].email) # {}
        THEN /\ resp[w].status = 400
             /\ resp[w].detail = "Email already registered"
             /\ store = pre[w]
             /\ Cardinality(RowsWithEmail(store, req[w].email)) = 1
        ELSE /\ resp[w].status = 201
             /\ Len(store) = Len(pre[w]) + 1
             /\ SubSeq(store, 1, Len(pre[w])) = pre[w]
             /\ Cardinality(RowsWithEmail(store, req[w].email)) = 1

C2_Witness ==
    \E w \in Workers :
        /\ Done(w, "create")
        /\ resp[w].status = 400
        /\ Len(store) = 2

\* C3: a uniqueness violation raised by the table's unique constraint, after
\* the handler's pre-check passed, is answered 400 like one caught by the
\* pre-check, never as an unmapped failure.
C3_StoreRejectionIs400 ==
    \A w \in Workers :
        (/\ pc[w] = "done"
         /\ req[w].op \in {"create", "update"}
         /\ resp[w].detail = "IntegrityError") => resp[w].status = 400

\* C4 as stated: PUT /users/{id} answers 404 "User not found" whenever no
\* user has that id, for every body and every table, and changes nothing.
C4_Original ==
    \A w \in Workers :
        (Done(w, "update") /\ req[w].user_id \notin Ids(pre[w])) =>
            /\ resp[w].status = 404
            /\ resp[w].detail = "User not found"
            /\ store = pre[w]

\* C4 amended: PUT /users/{id} for an id no user has changes nothing and
\* answers 404 "User not found", except that it answers 400 when the body
\* carries an email that a persisted user holds.
C4_UpdateNotFound ==
    \A w \in Workers :
        (Done(w, "update") /\ req[w].user_id \notin Ids(pre[w])) =>
            /\ store = pre[w]
            /\ IF RowsWithEmail(pre[w], req[w].email) # {}
               THEN /\ resp[w].status = 400
                    /\ resp[w].detail =
                          "Email already registered by another user"
               ELSE /\ resp[w].status = 404
                    /\ resp[w].detail = "User not found"

C4_Witness ==
    \E w \in Workers :
        /\ Done(w, "update")
        /\ req[w].user_id \notin Ids(pre[w])
        /\ Len(pre[w]) > 0
        /\ req[w].email \in Emails
        /\ resp[w].status = 404

\* C5: served without interleaving, PUT /users/{id} carrying an email e
\* answers 400 exactly when a user whose id differs from the path id holds e,
\* and then changes no record; setting a user's email to the one it already
\* holds is not rejected.
C5_UpdateDuplicate ==
    \A w \in Workers :
        (Done(w, "update") /\ req[w].email \in Emails) =>
            /\ resp[w].status = 400 <=>
                  \E i \in 1..Len(pre[w]) :
                      /\ pre[w][i].email = req[w].email
                      /\ pre[w][i].id # req[w].user_id
            /\ resp[w].status = 400 => store = pre[w]

\* a user is given the email it already holds, and the request succeeds
C5_Witness ==
    \E w \in Workers :
        /\ Done(w, "update")
        /\ \E i \in 1..Len(pre[w]) :
              /\ pre[w][i].email = req[w].email
              /\ pre[w][i].id = req[w].user_id
        /\ Len(pre[w]) = 2
        /\ resp[w].status = 200


\* the body names no field
EmptyBody(rq) ==
    rq.email = Unset /\ rq.password = Unset /\ rq.is_active = Unset

\* C6: update of an existing user with an empty partial field set leaves id,
\* email, hashed_password, is_active and created_at unchanged and sets
\* updated_at to a present value >= created_at.
C6_EmptyUpdateTouches ==
    \A w \in Workers :
        (/\ Done(w, "update")
         /\ EmptyBody(req[w])
         /\ get_user_by_id(pre[w], req[w].user_id) # <<>>) =>
            LET old == get_user_by_id(pre[w], req[w].user_id)[1]
                new == get_user_by_id(store, req[w].user_id)
            IN  /\ new # <<>>
                /\ new[1].id = old.id
                /\ new[1].email = old.email
                /\ new[1].hashed_password = old.hashed_password
                /\ new[1].is_active = old.is_active
                /\ new[1].created_at = old.created_at
                /\ new[1].updated_at # NoTime
                /\ new[1].updated_at >= new[1].created_at

\* C7: POST /auth/login answers 401 when no user has the email or the
\* password does not verify; 400 "Inactive user" when the credentials are
\* valid and is_active is false; 200 with the user's id and email when they
\* are valid and is_active is true. Credentials are decided first.
C7_LoginOutcome ==
    \A w \in Workers : Done(w, "login") =>
        LET rows == RowsWithEmail(pre[w], req[w].email)
            good == {i \in rows : pre[w][i].hashed_password =
                                    hash_password(req[w].password)}
        IN  IF good = {}
            THEN /\ resp[w].status = 401
                 /\ resp[w].detail = "Incorrect email or password"
            ELSE \A i \in good :
                    /\ pre[w][i].is_active = "False" =>
                          /\ resp[w].status = 400
                          /\ resp[w].detail = "Inactive user"
                    /\ pre[w][i].is_active = "True" =>
                          /\ resp[w].status = 200
                          /\ resp[w].user_id = pre[w][i].id
                          /\ resp[w].email = pre[w][i].email

\* wrong password for a deactivated user: 401, not 400
C7_Witness ==
    \E w \in Workers :
        /\ Done(w, "login")
        /\ resp[w].status = 401
        /\ \E i \in RowsWithEmail(pre[w], req[w].email) :
              pre[w][i].is_active = "False"

\* C8: authenticate(email, plain) returns absence iff no user has that email
\* or hash(plain) differs from the stored hash; otherwise it returns that
\* user's record whatever its is_active flag.
C8_Authenticate ==
    \A e \in Emails, p \in Passwords :
        LET rows == RowsWithEmail(store, e)
            got == authenticate_user(store, e, p)
        IN  /\ got = <<>> <=>
                  \A i \in rows : store[i].hashed_password # hash_password(p)
            /\ got # <<>> =>
                  \E i \in rows : got[1] = store[i]

\* a login reached the activity gate: authenticate returned an inactive user
C8_Witness ==
    \E w \in Workers :
        /\ Done(w, "login")
        /\ resp[w].status = 400
        /\ authenticate_user(store, req[w].email, req[w].password) # <<>>

\* C9: create followed by a lookup by that email returns a record whose
\* hashed_password is not the plaintext and verifies against it, so
\* authenticate with the same pair returns that record.
C9_CreateThenVerify ==
    \A w \in Workers :
        (Done(w, "create") /\ resp[w].status = 201) =>
            LET found == get_user_by_email(store, req[w].email)
            IN  /\ found # <<>>
                /\ found[1].id = resp[w].users[1].id
                /\ found[1].hashed_password # req[w].password
                /\ verify_password(req[w].password, found[1].hashed_password)
                /\ authenticate_user(store, req[w].email, req[w].password)
                      = found

C9_Witness ==
    \E w \in Workers :
        /\ Done(w, "create")
        /\ resp[w].status = 201
        /\ Len(store) = 2

\* C10: a user's id and created_at never change after creation (no step
\* that keeps the user changes them), and no two users share an id.
C10_IdsUnique ==
    \A i, j \in 1..Len(store) : store[i].id = store[j].id => i = j

C10_RowsKeepIdentity ==
    Ids(store) \subseteq Ids(store') =>
        \A i \in 1..Len(store) :
            /\ i <= Len(store')
            /\ store'[i].id = store[i].id
            /\ store'[i].created_at = store[i].created_at

C10_IdCreatedAtImmutable ==
    []C10_IdsUnique /\ [][C10_RowsKeepIdentity]_vars

\* a user updated after the clock moved on from its creation
C10_Witness ==
    \E w \in Workers :
        /\ Done(w, "update")
        /\ resp[w].status = 200
        /\ \E i \in 1..Len(store) :
              /\ store[i].id = req[w].user_id
              /\ store[i].updated_at > store[i].created_at


\* the row of `db` with id `user_id` (there is one)
RowOf(db, user_id) == db[CHOOSE i \in 1..Len(db) : db[i].id = user_id]

\* the rows of `db` other than the one with id `user_id`
RowsBut(db, user_id) == SelectSeq(db, LAMBDA r : r.id # user_id)

\* C11: updated_at is absent on a new user and stays as it is under every
\* request that is not an update of that user; every update that finds the
\* user and answers 200 sets updated_at to a present value >= created_at and
\* never decreases it.
C11_UpdatedAtLifecycle ==
    \A w \in Workers : pc[w] = "done" =>
        /\ (req[w].op = "create" /\ resp[w].status = 201) =>
              store[Len(store)].updated_at = NoTime
        /\ \A i \in Ids(pre[w]) \cap Ids(store) :
              IF req[w].op = "update" /\ req[w].user_id = i
              THEN resp[w].status = 200 =>
                   /\ RowOf(store, i).updated_at # NoTime
                   /\ RowOf(store, i).updated_at >= RowOf(store, i).created_at
                   /\ RowOf(store, i).updated_at >= RowOf(pre[w], i).updated_at
              ELSE RowOf(store, i).updated_at = RowOf(pre[w], i).updated_at

\* C12: an update of an existing user changes only the fields its body
\* names: a field among email, hashed_password and is_active that the body
\* leaves out keeps its value, and no other user's record changes.
C12_PartialUpdateFrame ==
    \A w \in Workers :
        (Done(w, "update") /\ req[w].user_id \in Ids(pre[w])) =>
            /\ req[w].user_id \in Ids(store)
            /\ LET old == RowOf(pre[w], req[w].user_id)
                   new == RowOf(store, req[w].user_id)
               IN  /\ req[w].email = Unset => new.email = old.email
                   /\ req[w].password = Unset =>
                          new.hashed_password = old.hashed_password
                   /\ req[w].is_active = Unset =>
                          new.is_active = old.is_active
                   /\ new.id = old.id
                   /\ new.created_at = old.created_at
            /\ RowsBut(store, req[w].user_id) = RowsBut(pre[w], req[w].user_id)

\* an update naming the password alone, of a deactivated user beside
\* another user, that changes the stored hash
C12_Witness ==
    \E w \in Workers :
        /\ Done(w, "update")
        /\ resp[w].status = 200
        /\ Len(pre[w]) = 2
        /\ req[w].user_id \in Ids(pre[w])
        /\ req[w].email = Unset
        /\ req[w].password \in Passwords
        /\ req[w].is_active = Unset
        /\ RowOf(pre[w], req[w].user_id).is_active = "False"
        /\ RowOf(pre[w], req[w].user_id).hashed_password
              # RowOf(store, req[w].user_id).hashed_password

\* C13: an update that carries a password stores hash(password), never the
\* plaintext; afterwards authenticate accepts the new password and no other.
C13_PasswordUpdate ==
    /\ \A i \in 1..Len(store) :
          /\ store[i].hashed_password \notin Passwords
          /\ store[i].email \notin Passwords
          /\ store[i].is_active \notin Passwords
    /\ \A w \in Workers :
          (/\ Done(w, "update")
           /\ resp[w].status = 200
           /\ req[w].password \in Passwords) =>
              LET new == RowOf(store, req[w].user_id)
              IN  /\ new.hashed_password = hash_password(req[w].password)
                  /\ authenticate_user(store, new.email, req[w].password)
                        = <<new>>
                  /\ \A p \in Passwords \ {req[w].password} :
                        authenticate_user(store, new.email, p) = <<>>

\* the password was changed to a different one
C13_Witness ==
    \E w \in Workers :
        /\ Done(w, "update")
        /\ resp[w].status = 200
        /\ req[w].password \in Passwords
        /\ RowOf(pre[w], req[w].user_id).hashed_password
              # RowOf(store, req[w].user_id).hashed_password

\* C14: delete of an existing user answers success and removes exactly that
\* record, so a lookup by the id then answers 404; delete of an id nobody
\* holds answers 404 and leaves the store unchanged.
C14_Delete ==
    \A w \in Workers : Done(w, "delete") =>
        IF req[w].user_id \in Ids(pre[w])
        THEN /\ resp[w].status = 200
             /\ store = RowsBut(pre[w], req[w].user_id)
             /\ Len(store) = Len(pre[w]) - 1
             /\ get_user_by_id(store, req[w].user_id) = <<>>
             /\ LookupResponse(get_user_by_id(store, req[w].user_id)).status
                   = 404
        ELSE /\ resp[w].status = 404
             /\ store = pre[w]

C14_Witness ==
    \E w \in Workers :
        /\ Done(w, "delete")
        /\ resp[w].status = 200
        /\ Len(pre[w]) = 2
        /\ req[w].user_id = pre[w][2].id

\* C15: an update or delete whose target was removed by a concurrent request
\* between its existence check and its mutation is answered as absence (404)
\* and changes no record.
C15_VanishedTarget ==
    \A w \in Workers :
        (/\ pc[w] \in {"update_commit", "delete_commit"}
         /\ loaded[w][1].id \notin Ids(store)
         /\ pc'[w] = "done") =>
            /\ resp'[w].status = 404
            /\ store' = store

C15_VanishedTargetIsAbsence == [][C15_VanishedTarget]_vars


Max0(n) == IF n < 0 THEN 0 ELSE n

\* the set of ids of a page of rows or of users in a response
PageIds(page) == {page[i].id : i \in 1..Len(page)}

\* C16: with N persisted users and no mutation in between, list(0, 2) and
\* list(2, 2) return disjoint id sets whose union has min(4, N) ids, and
\* list(skip, limit) returns exactly min(limit, max(0, N - skip)) users.
C16_Pagination ==
    LET N == Len(store)
    IN  /\ PageIds(get_users(store, 0, 2)) \cap PageIds(get_users(store, 2, 2))
              = {}
        /\ Cardinality(PageIds(get_users(store, 0, 2))
                         \cup PageIds(get_users(store, 2, 2))) = Min(4, N)
        /\ \A skip \in 0..MaxSkip, limit \in 1..MaxLimit :
              Len(get_users(store, skip, limit))
                  = Min(limit, Max0(N - skip))
        /\ \A w \in Workers :
              (Done(w, "list") /\ resp[w].status = 200) =>
                  /\ Len(resp[w].users)
                        = Min(req[w].limit, Max0(N - req[w].skip))
                  /\ Cardinality(PageIds(resp[w].users)) = Len(resp[w].users)

\* the second page of a table of three users: one user comes back
C16_Witness ==
    \E w \in Workers :
        /\ Done(w, "list")
        /\ resp[w].status = 200
        /\ req[w].skip = 2
        /\ req[w].limit = 2
        /\ Len(store) = 3
        /\ Len(resp[w].users) = 1


\* the position of the row with id `user_id` in `db` (there is one)
PosOf(db, user_id) == CHOOSE i \in 1..Len(db) : db[i].id = user_id

\* C17 (state part): a list response holds its users in the order of their
\* insertion: a user created earlier comes first, and the order is the
\* table's.
C17_ListInOrder ==
    /\ \A i, j \in 1..Len(store) :
          i < j => store[i].created_at <= store[j].created_at
    /\ \A w \in Workers :
          (Done(w, "list") /\ resp[w].status = 200) =>
              \A i, j \in 1..Len(resp[w].users) :
                  LET a == resp[w].users[i]
                      b == resp[w].users[j]
                  IN  /\ a.id \in Ids(store)
                      /\ b.id \in Ids(store)
                      /\ (i < j) <=> (PosOf(store, a.id) < PosOf(store, b.id))
                      /\ a.created_at < b.created_at => i < j

\* C17 (step part): a step keeps the relative order of the users that stay
\* and puts a new user after all of them.
C17_StoreKeepsOrder ==
    \A i, j \in 1..Len(store') :
        i < j =>
            LET a == store'[i].id
                b == store'[j].id
            IN  /\ b \in Ids(store) => a \in Ids(store)
                /\ (a \in Ids(store) /\ b \in Ids(store)) =>
                       PosOf(store, a) < PosOf(store, b)

C18_TotalIsStoreSize ==
    \A w \in Workers :
        (Done(w, "list") /\ resp[w].status = 200) =>
            resp[w].total = Len(store)

\* C18 (step part): the number of persisted users grows by one exactly when
\* a create succeeds and shrinks by one exactly when a delete succeeds.
C18_CountSteps ==
    LET created == \E w \in Workers :
                       pc[w] = "create_insert" /\ pc'[w] = "create_refresh"
        deleted == \E w \in Workers :
                       /\ pc[w] = "delete_commit"
                       /\ pc'[w] = "done"
                       /\ resp'[w].status = 200
    IN  Len(store') = Len(store) + (IF created THEN 1 ELSE 0)
                                 - (IF deleted THEN 1 ELSE 0)

\* C18: the total of GET /users/ is the number of persisted users (the
\* successful creates less the successful deletes), whatever the page holds.
C18_TotalIsCount == []C18_TotalIsStoreSize /\ [][C18_CountSteps]_vars

\* a page shorter than the total, with a deactivated user in the table
C18_Witness ==
    \E w \in Workers :
        /\ Done(w, "list")
        /\ resp[w].status = 200
        /\ resp[w].total = 2
        /\ Len(resp[w].users) = 1
        /\ \E i \in 1..Len(store) : store[i].is_active = "False"


\* C20 as stated: a successful create assigns an id no persisted user held,
\* sets is_active to true, leaves updated_at absent and stores the email
\* exactly as the request gave it.
C20_Original ==
    \A w \in Workers :
        (Done(w, "create") /\ resp[w].status = 201) =>
            LET new == store[Len(store)]
            IN  /\ new.id \notin Ids(pre[w])
                /\ new.is_active = "True"
                /\ new.updated_at = NoTime
                /\ new.email = req[w].given

\* C20 amended: a successful create adds one record with an id no persisted
\* user held, is_active true, updated_at absent and the email as request
\* validation returns it: the given email with its domain in lower case,
\* which is the given email when that is already so.
C20_Create ==
    \A w \in Workers :
        (Done(w, "create") /\ resp[w].status = 201) =>
            LET new == store[Len(store)]
            IN  /\ store = Append(pre[w], new)
                /\ new.id \notin Ids(pre[w])
                /\ new.is_active = "True"
                /\ new.updated_at = NoTime
                /\ new.email \in Emails
                /\ req[w].given \in Emails => new.email = req[w].given
                /\ req[w].given = "a@X.com" => new.email = "a@x.com"
                /\ resp[w].users = <<UserView(new)>>

\* a second user created from an email with an upper-case domain
C20_Witness ==
    \E w \in Workers :
        /\ Done(w, "create")
        /\ resp[w].status = 201
        /\ req[w].given \notin Emails
        /\ Len(pre[w]) = 1


\* the handlers' steps, run one request at a time, answer what the request
\* served as a whole answers on the table it found
ResponsesAgree ==
    \A w \in Workers : pc[w] = "done" =>
        /\ req[w].op = "create" =>
              \E t \in 1..clock : resp[w] = PostResponse(pre[w], req[w], t)
        /\ req[w].op = "update" =>
              \E t \in 1..clock : resp[w] = PutResponse(pre[w], req[w], t)
        /\ req[w].op = "list" => resp[w] = GetUsersResponse(pre[w], req[w])

\* the hashes a stored password can have
Hashes == {hash_password(p) : p \in Passwords}

\* the tables that differ from `db` in users' hashed_password values only
HashVariants(db) ==
    {[i \in 1..Len(db) |-> [db[i] EXCEPT !.hashed_password = h[i]]] :
        h \in [1..Len(db) -> Hashes]}

\* the responses that C19 names do not depend on the stored hashes, PUT
\* responses left aside
C19_ReadsAndCreates(v) ==
    /\ \A i \in UserIds :
          LookupResponse(get_user_by_id(v, i))
              = LookupResponse(get_user_by_id(store, i))
    /\ \A e \in Emails :
          LookupResponse(get_user_by_email(v, e))
              = LookupResponse(get_user_by_email(store, e))
    /\ \A rq \in ListRequests :
          GetUsersResponse(v, rq) = GetUsersResponse(store, rq)
    /\ \A rq \in CreateRequests(TRUE) :
          PostResponse(v, rq, clock) = PostResponse(store, rq, clock)

\* C19: for two tables that differ only in users' hashed_password values,
\* every GET /users/, GET /users/{id}, GET /users/email/{email}, POST
\* /users/ and PUT /users/{id} response is the same, and no response body
\* carries a hashed_password field.
C19_HashIndependence ==
    /\ \A v \in HashVariants(store) :
          /\ C19_ReadsAndCreates(v)
          /\ \A rq \in AllUpdateRequests :
                PutResponse(v, rq, clock) = PutResponse(store, rq, clock)
    /\ \A w \in Workers : \A i \in 1..Len(resp[w].users) :
          "hashed_password" \notin DOMAIN resp[w].users[i]


\* C21: GET /users/{id} answers 200 with the user iff a persisted user has
\* that id, and 404 otherwise; GET /users/email/{email} answers 200 with the
\* user iff a persisted user has exactly that email, and 404 otherwise.
C21_LookupOutcome ==
    \A w \in Workers :
        /\ Done(w, "get") =>
              IF req[w].user_id \in Ids(pre[w])
              THEN /\ resp[w].status = 200
                   /\ resp[w].users
                         = <<UserView(RowOf(pre[w], req[w].user_id))>>
              ELSE resp[w].status = 404
        /\ Done(w, "get_by_email") =>
              IF \E i \in 1..Len(pre[w]) : pre[w][i].email = req[w].email
              THEN /\ resp[w].status = 200
                   /\ Len(resp[w].users) = 1
                   /\ resp[w].users[1].email = req[w].email
              ELSE resp[w].status = 404


\* C22: every persisted user has a present email, a present hashed_password
\* and a boolean is_active, whatever creates and updates were served
\* (updates naming a field with an explicit null included).
C22_RequiredFields ==
    \A i \in 1..Len(store) :
        /\ store[i].email # None
        /\ store[i].hashed_password # None
        /\ store[i].is_active \in Bools


\* C23: after an update answered 200 that changes a user's email from e1 to
\* e2, lookup by e1 finds nobody (404), lookup by e2 finds the user of the
\* same id, and authenticate with e2 and the user's password returns that
\* user (login answers 200, or 400 when the user is inactive).
C23_EmailChange ==
    \A w \in Workers :
        (/\ Done(w, "update")
         /\ resp[w].status = 200
         /\ req[w].email \in Emails
         /\ req[w].user_id \in Ids(pre[w])
         /\ RowOf(pre[w], req[w].user_id).email # req[w].email) =>
            LET e1 == RowOf(pre[w], req[w].user_id).email
                e2 == req[w].email
                found == SelectSeq(store, LAMBDA r : r.email = e2)
            IN  /\ \A i \in 1..Len(store) : store[i].email # e1
                /\ LookupResponse(SelectSeq(store, LAMBDA r : r.email = e1))
                      .status = 404
                /\ Len(found) = 1
                /\ found[1].id = req[w].user_id
                /\ LookupResponse(found).status = 200
                /\ LookupResponse(found).users[1].id = req[w].user_id
                /\ \A p \in Passwords :
                      hash_password(p) = found[1].hashed_password =>
                          /\ authenticate_user(store, e2, p) = found
                          /\ LET login == LoginResponse(store,
                                     [NoReq EXCEPT !.op = "login",
                                                   !.email = e2,
                                                   !.password = p])
                             IN  IF found[1].is_active = "True"
                                 THEN login.status = 200
                                      /\ login.user_id = req[w].user_id
                                 ELSE login.status = 400

\* an email changed by a body that names the email alone
C23_Witness ==
    \E w \in Workers :
        /\ Done(w, "update")
        /\ resp[w].status = 200
        /\ req[w].email \in Emails
        /\ req[w].password = Unset
        /\ req[w].user_id \in Ids(pre[w])
        /\ RowOf(pre[w], req[w].user_id).email # req[w].email
        /\ RowOf(store, req[w].user_id).email = req[w].email

\* does the table hold a user with this email whose hash is the password's?
CredentialsMatch(db, email, password) ==
    \E i \in 1..Len(db) :
        /\ db[i].email = email
        /\ db[i].hashed_password = hash_password(password)

\* C24: a login whose email belongs to no user and a login whose email
\* belongs to a user (active or not) with another password get the same
\* response: 401 "Incorrect email or password".
C24_FailedLoginUniform ==
    \A w \in Workers :
        (Done(w, "login")
         /\ ~CredentialsMatch(pre[w], req[w].email, req[w].password)) =>
            resp[w] = HTTPException(401, "Incorrect email or password")

\* the wrong password for an inactive user
C24_Witness ==
    \E w \in Workers :
        /\ Done(w, "login")
        /\ resp[w].status = 401
        /\ \E i \in 1..Len(pre[w]) :
              /\ pre[w][i].email = req[w].email
              /\ pre[w][i].is_active = "False"


\* C25: after DELETE /users/{id} succeeds for a user with email e, no record
\* with e remains, login with e answers 401 and a POST /users/ with e
\* answers 201 and adds a record with e.
C25_DeleteFreesEmail ==
    \A w \in Workers :
        /\ (Done(w, "delete") /\ resp[w].status = 200) =>
              LET e == RowOf(pre[w], req[w].user_id).email
              IN  /\ \A i \in 1..Len(store) : store[i].email # e
                  /\ \A p \in Passwords :
                        /\ LoginResponse(store,
                               [NoReq EXCEPT !.op = "login", !.email = e,
                                             !.password = p]).status = 401
                        /\ PostResponse(store,
                               [NoReq EXCEPT !.op = "create", !.given = e,
                                             !.email = e, !.password = p],
                               clock).status = 201
        /\ (/\ Done(w, "create")
            /\ \A i \in 1..Len(pre[w]) : pre[w][i].email # req[w].email) =>
              /\ resp[w].status = 201
              /\ Len(store) = Len(pre[w]) + 1
              /\ store[Len(store)].email = req[w].email
              /\ Len(SelectSeq(store, LAMBDA r : r.email = req[w].email)) = 1

\* the older of two users is deleted
C25_Witness ==
    \E w \in Workers :
        /\ Done(w, "delete")
        /\ resp[w].status = 200
        /\ Len(pre[w]) = 2
        /\ req[w].user_id = pre[w][1].id
        /\ \A i \in 1..Len(store) : store[i].email # pre[w][1].email


\* a request's session is open from its arrival until get_db closes it
SessionOpen(w) == pc[w] # "idle"

\* C26: the session opened for a request is closed once the request has
\* been answered, on every exit path (return, HTTPException, an exception
\* of the store): no session stays open for ever.
C26_SessionsClosed ==
    \A w \in Workers :
        (pc[w] = "done") ~> (~SessionOpen(w) /\ loaded[w] = <<>>)

\* a request that ended in an exception of the store, its session still open
C26_Witness ==
    \E w \in Workers :
        /\ pc[w] = "done"
        /\ resp[w].status = 500
        /\ resp[w].detail = "IntegrityError"
        /\ SessionOpen(w)


\* C27: a request answered with a 4xx status (400 on POST or PUT, 404 on
\* GET, PUT or DELETE, 401 or 400 on login) leaves every persisted record
\* exactly as it was before the request.
C27_ClientErrorKeepsStore ==
    \A w \in Workers :
        (pc[w] = "done" /\ resp[w].status >= 400 /\ resp[w].status < 500) =>
            store = pre[w]

\* a PUT rejected for its email although it names a password and a flag too
C27_Witness ==
    \E w \in Workers :
        /\ Done(w, "update")
        /\ resp[w].status = 400
        /\ req[w].password \in Passwords
        /\ req[w].is_active = "False"
        /\ Len(pre[w]) = 2
        /\ store = pre[w]


\* the requests that only read
ReadOps == {"list", "get", "get_by_email", "login"}

\* C28 (state part): when a read-only request has been answered, every
\* persisted record, updated_at included, is as it was when it arrived.
C28_ReadsKeepStore ==
    \A w \in Workers :
        (pc[w] = "done" /\ req[w].op \in ReadOps) => store = pre[w]

\* C28 (step part): no step of a read-only request writes to the table.
C28_ReadSteps ==
    \A w \in Workers :
        (pc'[w] # pc[w] /\ req'[w].op \in ReadOps) => store' = store

\* C28: GET /users/, GET /users/{id}, GET /users/email/{email} and POST
\* /auth/login (successful or not) leave every persisted record unchanged.
C28_ReadOnly == []C28_ReadsKeepStore /\ [][C28_ReadSteps]_vars

\* a successful login of a user that was updated before
C28_Witness ==
    \E w \in Workers :
        /\ Done(w, "login")
        /\ resp[w].status = 200
        /\ \E i \in 1..Len(store) :
              /\ store[i].id = resp[w].user_id
              /\ store[i].updated_at # NoTime
              /\ store[i].updated_at < clock


\* C29: a GET /users/ response holds at most limit users and at most total
\* users, also when creates or deletes of other workers run between the
\* handler's page query and its count query.
C29_PageWithinTotal ==
    \A w \in Workers :
        (Done(w, "list") /\ resp[w].status = 200) =>
            /\ Len(resp[w].users) <= req[w].limit
            /\ Len(resp[w].users) <= resp[w].total

\* C30: of two POST /users/ requests in flight together with the same email,
\* which no user held before them, exactly one is answered 201 and exactly
\* one record with the email is persisted, however their pre-checks and
\* inserts interleave.
C30_OneCreateWins ==
    \A w, v \in Workers :
        (/\ w # v
         /\ Done(w, "create")
         /\ Done(v, "create")
         /\ req[w].email = req[v].email) =>
            /\ Cardinality(RowsWithEmail(store, req[w].email)) = 1
            /\ (resp[w].status = 201) # (resp[v].status = 201)

\* both requests passed the pre-check; the later INSERT hit the unique index
C30_Witness ==
    \E w, v \in Workers :
        /\ Done(w, "create")
        /\ Done(v, "create")
        /\ req[w].email = req[v].email
        /\ resp[w].status = 201
        /\ resp[v].status = 500
        /\ resp[v].detail = "IntegrityError"

====
